---- MODULE Spec2Model ----
(***************************************************************************)
(* make_dsm.py: a digital surface model (DSM) from a bare-earth elevation  *)
(* raster (DEM) and building footprints.  The script is a linear batch:    *)
(* load inputs, impute missing building heights (category mean, then       *)
(* nearest neighbour), merge footprints found only in OpenStreetMap, burn  *)
(* every footprint into the raster, write the raster.                      *)
(*                                                                         *)
(* Numbers.  Heights and elevations are floating-point in the script; they *)
(* are modelled as exact rationals <<n, d>> (d > 0, lowest terms), and the *)
(* floating-point NaN as <<0, 0>>.  Comparisons with NaN are false, and    *)
(* arithmetic with NaN gives NaN, as in numpy/pandas.                      *)
(*                                                                         *)
(* Geometry.  The raster is a grid of unit cells; cell <<cx, cy>> is the   *)
(* square [cx, cx+1] x [cy, cy+1] in geographic coordinates.  A footprint  *)
(* is an axis-aligned rectangle [x0, x1] x [y0, y1] with integer corners.  *)
(* The projected CRS (UTM) scales geographic coordinates to metres.        *)
(***************************************************************************)
EXTENDS Integers, Sequences, FiniteSets, TLC

VARIABLES
    pc,      \* position of the script: the stage that runs next
    input,   \* the input files and the OSM service's answer (never written)
    dem,     \* the cropped elevation raster
    blds,    \* primary footprints (GeoDataFrame blds)
    blds2,   \* OSM footprints inside the extent (GeoDataFrame blds2)
    temp,    \* OSM footprints kept for the merge (GeoDataFrame temp)
    final,   \* merged footprints (GeoDataFrame final)
    dsm,     \* the surface raster being built
    idx,     \* position of the rasterization loop in final
    files    \* output files written so far

vars == <<pc, input, dem, blds, blds2, temp, final, dsm, idx, files>>

----------------------------------------------------------------------------
(* Bounds of the model *)

\* number of building sites of the street (merge and class inputs)
NSites == 3
\* most OSM footprints the service returns (merge inputs)
MaxOsm == 1
\* most footprints of the rasterization inputs
MaxOverlap == 2
\* width, in cells, of the rasterization inputs' raster
RasterW == 3
\* size of one raster cell, in metres of the projected CRS
CellMetres == 70

(* Program constants *)

\* max_distance of the OSM-to-primary nearest join, in metres
MaxDistance == 300
\* feet to metres, 0.3048 = FtNum / FtDen
FtNum == 381
FtDen == 1250

----------------------------------------------------------------------------
(* Exact arithmetic with NaN *)

NaN == <<0, 0>>

Abs(n) == IF n < 0 THEN -n ELSE n

Max2(a, b) == IF a >= b THEN a ELSE b

RECURSIVE Gcd(_, _)
Gcd(a, b) == IF b = 0 THEN a ELSE Gcd(b, a % b)

\* the rational n/d in lowest terms; x/0 is NaN
Rat(n, d) ==
    IF d = 0 THEN NaN
    ELSE LET g == Gcd(Abs(n), Abs(d))
             s == IF d < 0 THEN -1 ELSE 1
         IN <<(s * n) \div g, (s * d) \div g>>

Whole(n) == <<n, 1>>

IsNaN(p) == p[2] = 0

Add(p, q) == IF IsNaN(p) \/ IsNaN(q) THEN NaN
             ELSE Rat(p[1] * q[2] + q[1] * p[2], p[2] * q[2])

Mul(p, q) == IF IsNaN(p) \/ IsNaN(q) THEN NaN
             ELSE Rat(p[1] * q[1], p[2] * q[2])

\* p > 0 and p == 0 as pandas evaluates them: False on NaN
GtZero(p) == ~IsNaN(p) /\ p[1] > 0
EqZero(p) == ~IsNaN(p) /\ p[1] = 0

RECURSIVE SumSeq(_)
SumSeq(s) == IF s = <<>> THEN Whole(0) ELSE Add(Head(s), SumSeq(Tail(s)))

\* mean of the values of s that are not NaN (skipna); NaN when there are none
NanMean(s) ==
    LET valid == SelectSeq(s, LAMBDA v : ~IsNaN(v))
        total == SumSeq(valid)
    IN IF valid = <<>> THEN NaN ELSE Rat(total[1], total[2] * Len(valid))

----------------------------------------------------------------------------
(* Sequences as data frames *)

Indices(s) == 1..Len(s)

RECURSIVE SetToSeq(_)
\* the elements of a finite set of integers, ascending
SetToSeq(S) ==
    IF S = {} THEN <<>>
    ELSE LET m == CHOOSE x \in S : \A y \in S : x <= y
         IN <<m>> \o SetToSeq(S \ {m})

\* the rows of s whose position satisfies Keep, in order
Rows(s, Keep(_)) ==
    LET ks == SetToSeq({i \in Indices(s) : Keep(i)})
    IN [k \in 1..Len(ks) |-> s[ks[k]]]

----------------------------------------------------------------------------
(* Geometry *)

Rect(x0, y0, x1, y1) == [x0 |-> x0, y0 |-> y0, x1 |-> x1, y1 |-> y1]

\* to_crs(utm): geographic coordinates to metres
ToUtm(g) == Rect(g.x0 * CellMetres, g.y0 * CellMetres,
                 g.x1 * CellMetres, g.y1 * CellMetres)

\* a.within(b) / b.contains(a) for rectangles
Within(a, b) == /\ b.x0 <= a.x0 /\ a.x1 <= b.x1
                /\ b.y0 <= a.y0 /\ a.y1 <= b.y1

\* the gap between two closed intervals, 0 when they meet
Gap(lo1, hi1, lo2, hi2) == Max2(0, Max2(lo2 - hi1, lo1 - hi2))

\* squared distance between two rectangles (0 when they touch or overlap)
Dist2(a, b) ==
    LET dx == Gap(a.x0, a.x1, b.x0, b.x1)
        dy == Gap(a.y0, a.y1, b.y0, b.y1)
    IN dx * dx + dy * dy

\* the cells of a w x h raster
Cells(w, h) == (0..(w - 1)) \X (0..(h - 1))

\* the cells a footprint masks: those whose centre lies inside it
Under(g, c) == /\ g.x0 <= c[1] /\ c[1] < g.x1
               /\ g.y0 <= c[2] /\ c[2] < g.y1

\* extent.geometry.envelope: the rectangle the raster is cropped to
Extent(d) == Rect(0, 0, d.w, d.h)

\* the cells of a w x h raster in row-major order
CellSeq(w, h) == [k \in 1..(w * h) |-> <<(k - 1) % w, (k - 1) \div w>>]

----------------------------------------------------------------------------
(* Load and pre-process inputs (lines 35-89) *)

NoClass == "NaN"

\* 0.3048
FeetToMetres == Rat(FtNum, FtDen)

\* line 74: blds['HEIGHT'] * 0.3048
SourceHeight(row) == Mul(row.HEIGHT, FeetToMetres)

\* lines 67-74: footprints within the extent, with height in metres
LoadBuildings(raw, extent) ==
    LET kept == Rows(raw, LAMBDA i : Within(raw[i].geometry, extent))
    IN [k \in 1..Len(kept) |->
          [geometry   |-> kept[k].geometry,
           HEIGHT     |-> kept[k].HEIGHT,
           Prop_Class |-> kept[k].Prop_Class,
           height     |-> SourceHeight(kept[k])]]

\* lines 82-88: OSM polygons contained in the extent
LoadOsm(raw, extent) ==
    LET kept == Rows(raw, LAMBDA i : /\ raw[i].type = "Polygon"
                                     /\ Within(raw[i].geometry, extent))
    IN [k \in 1..Len(kept) |-> [geometry |-> kept[k].geometry]]

----------------------------------------------------------------------------
(* Category-mean imputation (lines 98-107) *)

\* the grouping without the filter height > 0
ClassHeights_unfiltered(b, c) ==
    LET rows == Rows(b, LAMBDA i : b[i].Prop_Class = c)
    IN [k \in 1..Len(rows) |-> rows[k].height]

\* blds[blds.height > 0].groupby('Prop_Class')['height']: the heights of a class
ClassHeights(b, c) ==
    LET known == Rows(b, LAMBDA i : GtZero(b[i].height) /\ b[i].Prop_Class = c)
    IN [k \in 1..Len(known) |-> known[k].height]

\* line 101: the classes that have a footprint of known height (groupby
\* drops a missing class)
classes(b) ==
    {b[i].Prop_Class : i \in {j \in Indices(b) : GtZero(b[j].height)}} \ {NoClass}

\* line 99: the mean height of a class
heights(b, c) == NanMean(ClassHeights(b, c))

\* the mask with a test for a missing height in place of height == 0
imputable_isna(b, i) == IsNaN(b[i].height) /\ b[i].Prop_Class \in classes(b)

\* the mask without the test height == 0
imputable_any(b, i) == b[i].Prop_Class \in classes(b)

\* line 104
imputable(b, i) == EqZero(b[i].height) /\ b[i].Prop_Class \in classes(b)

\* lines 103-107 (the 'std' column, which nothing reads, is left out)
ImputeClass(b) ==
    [i \in Indices(b) |->
        [geometry   |-> b[i].geometry,
         HEIGHT     |-> b[i].HEIGHT,
         Prop_Class |-> b[i].Prop_Class,
         height     |-> IF imputable(b, i) THEN heights(b, b[i].Prop_Class)
                        ELSE b[i].height,
         imputed    |-> IF imputable(b, i) THEN "True" ELSE "False"]]

----------------------------------------------------------------------------
(* sjoin_nearest *)

\* the right geometries a left geometry may be joined to
InReach(g, R, limited) ==
    {j \in Indices(R) : ~limited \/ Dist2(g, R[j]) <= MaxDistance * MaxDistance}

\* the nearest of them: all that are equally near
Nearest(g, R, limited) ==
    {j \in InReach(g, R, limited) :
        \A k \in InReach(g, R, limited) : Dist2(g, R[j]) <= Dist2(g, R[k])}

\* the join rows of left row i: one per nearest right row; with how = 'left'
\* a row with no right row is kept, its right columns missing
JoinRows(L, R, i, limited, left) ==
    LET near == SetToSeq(Nearest(L[i], R, limited))
    IN IF near = <<>>
       THEN IF left
            THEN <<[index |-> i, matched |-> FALSE, index_right |-> 0, dist2 |-> 0]>>
            ELSE <<>>
       ELSE [k \in 1..Len(near) |->
               [index |-> i, matched |-> TRUE, index_right |-> near[k],
                dist2 |-> Dist2(L[i], R[near[k]])]]

RECURSIVE JoinFrom(_, _, _, _, _)
JoinFrom(L, R, i, limited, left) ==
    IF i > Len(L) THEN <<>>
    ELSE JoinRows(L, R, i, limited, left) \o JoinFrom(L, R, i + 1, limited, left)

\* L.sjoin_nearest(R, how, max_distance): rows keep the left index, which
\* repeats when several right rows are equally near; dist2 is the square of
\* the distance column
SjoinNearest(L, R, limited, left) == JoinFrom(L, R, 1, limited, left)

UtmGeometries(frame) == [i \in Indices(frame) |-> ToUtm(frame[i].geometry)]

----------------------------------------------------------------------------
(* OSM footprints missing from the primary source (lines 122-126) *)

\* the test with a missing distance read as 0
Coincident_orMissing(T, k) ==
    \E m \in Indices(T) : /\ T[m].index = T[k].index
                          /\ (T[m].matched => T[m].dist2 = 0)

\* line 126: a join row is dropped when its index is that of a row at
\* distance 0 (a missing distance is not 0)
Coincident(T, k) ==
    \E m \in Indices(T) : /\ T[m].index = T[k].index
                          /\ T[m].matched /\ T[m].dist2 = 0

\* lines 123-126: temp holds the geometry of blds2.to_crs(utm), one row per
\* join row that is kept
MatchOsm(b2, b) ==
    LET L == UtmGeometries(b2)
        T == SjoinNearest(L, UtmGeometries(b), TRUE, TRUE)
        kept == Rows(T, LAMBDA k : ~Coincident(T, k))
    IN [k \in 1..Len(kept) |-> [geometry |-> L[kept[k].index]]]

----------------------------------------------------------------------------
(* Merge (lines 153-158) *)

\* line 154: pd.concat((blds, temp[['geometry']]), ignore_index=True); the
\* columns temp lacks are missing in its rows, and each row keeps the
\* coordinates it has
Concat(b, t) ==
    b \o [k \in 1..Len(t) |->
            [geometry   |-> t[k].geometry,
             HEIGHT     |-> NaN,
             Prop_Class |-> NoClass,
             height     |-> NaN,
             imputed    |-> "NaN"]]

\* lines 157-158
FillMissing(f) ==
    [i \in Indices(f) |->
        [f[i] EXCEPT !.imputed = IF @ = "NaN" THEN "True" ELSE @,
                     !.height  = IF IsNaN(@) THEN Whole(0) ELSE @]]

Merge(b, t) == FillMissing(Concat(b, t))

----------------------------------------------------------------------------
(* Nearest-neighbour imputation (lines 160-170) *)

\* line 161: the rows of final that give a height
IsNeighbor(f, i) == GtZero(f[i].height)

\* line 162: the rows of final that take one
IsMissing(f, i) == EqZero(f[i].height)

\* the positions in f of the rows kept by a filter, ascending
Positions(f, Keep(_, _)) == SetToSeq({i \in Indices(f) : Keep(f, i)})

\* the join with the max_distance of the first join
NearestJoin_limited(f) ==
    LET ms == Positions(f, IsMissing)
        ns == Positions(f, IsNeighbor)
        J == SjoinNearest([k \in 1..Len(ms) |-> ToUtm(f[ms[k]].geometry)],
                          [k \in 1..Len(ns) |-> ToUtm(f[ns[k]].geometry)],
                          TRUE, FALSE)
    IN [k \in 1..Len(J) |-> [index |-> ms[J[k].index],
                             height_right |-> f[ns[J[k].index_right]].height]]

\* lines 165-169: missings.to_crs(utm).sjoin_nearest(neighbors.to_crs(utm)),
\* with the positions in final of both sides
NearestJoin(f) ==
    LET ms == Positions(f, IsMissing)
        ns == Positions(f, IsNeighbor)
        J == SjoinNearest([k \in 1..Len(ms) |-> ToUtm(f[ms[k]].geometry)],
                          [k \in 1..Len(ns) |-> ToUtm(f[ns[k]].geometry)],
                          FALSE, FALSE)
    IN [k \in 1..Len(J) |-> [index |-> ms[J[k].index],
                             height_right |-> f[ns[J[k].index_right]].height]]

\* line 170 aligns missings['height_right'] on the index of final; an index
\* that repeats (a row with several equally near neighbours) cannot be
\* aligned and raises ValueError
Ambiguous(J) ==
    \E k, m \in Indices(J) : k # m /\ J[k].index = J[m].index

\* line 170: a row the join does not hold gets a missing height
AssignNearest(f, J) ==
    [i \in Indices(f) |->
        IF IsMissing(f, i)
        THEN [f[i] EXCEPT !.height =
                 IF \E k \in Indices(J) : J[k].index = i
                 THEN J[CHOOSE k \in Indices(J) : J[k].index = i].height_right
                 ELSE NaN]
        ELSE f[i]]

----------------------------------------------------------------------------
(* Make DSM (lines 179-185) *)

\* line 184: dem.rio.clip([geometry], drop=False): the raster's shape, NaN
\* outside the footprint
Clip(d, g) == [c \in Cells(d.w, d.h) |-> IF Under(g, c) THEN d.val[c] ELSE NaN]

\* clipped.mean(): NaN cells are skipped
ClippedMean(d, g) ==
    LET clipped == Clip(d, g)
        cs == CellSeq(d.w, d.h)
    IN NanMean([k \in 1..Len(cs) |-> clipped[cs[k]]])

\* the loop with clipped + bld.height for clipped.mean() + bld.height
Burn_noMean(ds, d, bld) ==
    LET clipped == Clip(d, bld.geometry)
    IN [ds EXCEPT !.val = [c \in Cells(d.w, d.h) |->
                              IF IsNaN(clipped[c]) THEN ds.val[c]
                              ELSE Add(clipped[c], bld.height)]]

\* the loop with dsm.rio.clip for dem.rio.clip
Burn_fromDsm(ds, d, bld) ==
    LET clipped == Clip(ds, bld.geometry)
        level == Add(ClippedMean(ds, bld.geometry), bld.height)
    IN [ds EXCEPT !.val = [c \in Cells(d.w, d.h) |->
                              IF IsNaN(clipped[c]) THEN ds.val[c] ELSE level]]

\* line 185: dsm.where(np.isnan(clipped), clipped.mean() + bld.height)
Burn(ds, d, bld) ==
    LET clipped == Clip(d, bld.geometry)
        level == Add(ClippedMean(d, bld.geometry), bld.height)
    IN [ds EXCEPT !.val = [c \in Cells(d.w, d.h) |->
                              IF IsNaN(clipped[c]) THEN ds.val[c] ELSE level]]

----------------------------------------------------------------------------
(* Inputs *)

Raster(w, h, Val(_)) == [w |-> w, h |-> h, val |-> [c \in Cells(w, h) |-> Val(c)]]

NoRaster == Raster(0, 0, LAMBDA c : NaN)

SourceRow(g, H, c) == [geometry |-> g, HEIGHT |-> H, Prop_Class |-> c]

OsmRow(g) == [geometry |-> g, type |-> "Polygon"]

\* a footprint of one cell in row 0
CellRect(cx) == Rect(cx, 0, cx + 1, 1)

(* A street of NSites building sites, every second cell of a one-row      *)
(* raster that goes on for two cells past the last site; a site is vacant  *)
(* or holds a primary footprint with a source height in feet (0 or NaN:    *)
(* not surveyed) and a class (NaN: none).                                  *)

StreetW == 2 * NSites + 1

SiteCell(i) == 2 * (i - 1)

Vacant == [present |-> FALSE, HEIGHT |-> NaN, Prop_Class |-> NoClass]

Built(H, c) == [present |-> TRUE, HEIGHT |-> H, Prop_Class |-> c]

StreetRows(site) ==
    LET here == SetToSeq({i \in 1..NSites : site[i].present})
    IN [k \in 1..Len(here) |->
          SourceRow(CellRect(SiteCell(here[k])),
                    site[here[k]].HEIGHT, site[here[k]].Prop_Class)]

Street == Raster(StreetW, 1, LAMBDA c : Whole(100))

(* Merge inputs: the street, and up to MaxOsm one-cell OSM footprints      *)
(* anywhere on it or just past the extent.                                 *)

MergeSites ==
    {Vacant, Built(Whole(0), "A"), Built(Whole(10), "A"), Built(Whole(20), "A"),
     Built(Whole(0), "B")}

OsmAnswers ==
    {[k \in 1..Len(SetToSeq(S)) |-> OsmRow(CellRect(SetToSeq(S)[k]))] :
        S \in {T \in SUBSET (0..StreetW) : Cardinality(T) <= MaxOsm}}

MergeInputs ==
    {[dem  |-> Street,
      blds |-> StreetRows(site),
      osm  |-> answer] : site \in [1..NSites -> MergeSites], answer \in OsmAnswers}

(* Class inputs: the street with every kind of primary footprint, and no   *)
(* OSM footprint.                                                          *)

ClassSites ==
    {Vacant}
    \cup {Built(H, c) : H \in {NaN, Whole(0), Whole(10), Whole(20)}, c \in {"A", "B"}}
    \cup {Built(Whole(0), NoClass), Built(Whole(10), NoClass)}

ClassInputs ==
    {[dem  |-> Street,
      blds |-> StreetRows(site),
      osm  |-> <<>>] : site \in [1..NSites -> ClassSites]}

(* Rasterization inputs: a sloping one-row raster of RasterW cells with at *)
(* most one nodata cell, and up to MaxOverlap surveyed footprints, each    *)
(* any run of cells, in any order.                                         *)

Slope(hole) ==
    Raster(RasterW, 1,
           LAMBDA c : IF c[1] = hole THEN NaN ELSE Whole(100 + 2 * c[1]))

Runs == {r \in {Rect(a, 0, b, 1) : a \in 0..(RasterW - 1), b \in 1..RasterW} :
            r.x0 < r.x1}

SurveyedRows == {SourceRow(g, Whole(ft), "A") : g \in Runs, ft \in {10, 20}}

SlopeInputs ==
    {[dem  |-> Slope(hole),
      blds |-> rows,
      osm  |-> <<>>] :
        hole \in 0..RasterW,
        rows \in UNION {[1..n -> SurveyedRows] : n \in 0..MaxOverlap}}

(* The end-to-end scenario of the specification: a flat raster and one     *)
(* square footprint of known height, anywhere on it.                       *)

Scenario == [w |-> 10, h |-> 10, ground |-> 100, side |-> 2, height |-> 5]

ScenarioInputs ==
    {[dem  |-> Raster(Scenario.w, Scenario.h, LAMBDA c : Whole(Scenario.ground)),
      blds |-> <<SourceRow(Rect(x, y, x + Scenario.side, y + Scenario.side),
                           Rat(Scenario.height * FtDen, FtNum), "A")>>,
      osm  |-> <<>>] :
        x \in 0..(Scenario.w - Scenario.side),
        y \in 0..(Scenario.h - Scenario.side)}

RasterInputs == SlopeInputs \cup ScenarioInputs

----------------------------------------------------------------------------
(* The script *)

DemThumbnail == "figures/dem_thumbnail.png"
Histogram    == "figures/hist_building_height.png"
Footprints   == "figures/building_footprints.png"
DsmThumbnail == "figures/dsm_thumbnail.png"
DsmRaster    == "geneva_dsm.tif"

Start(in) ==
    /\ pc = "load"
    /\ input = in
    /\ dem = NoRaster
    /\ blds = <<>>
    /\ blds2 = <<>>
    /\ temp = <<>>
    /\ final = <<>>
    /\ dsm = NoRaster
    /\ idx = 0
    /\ files = {}

\* an uncaught exception ends the process: its data are gone, the files
\* written so far stay
Raise ==
    /\ pc' = "failed"
    /\ dem' = NoRaster
    /\ blds' = <<>>
    /\ blds2' = <<>>
    /\ temp' = <<>>
    /\ final' = <<>>
    /\ dsm' = NoRaster
    /\ idx' = 0
    /\ UNCHANGED input

\* lines 35-89: extent and DEM, the DEM thumbnail, the footprints, OSM
Load ==
    /\ pc = "load"
    /\ dem' = input.dem
    /\ files' = files \cup {DemThumbnail}
    /\ blds' = LoadBuildings(input.blds, Extent(input.dem))
    /\ blds2' = LoadOsm(input.osm, Extent(input.dem))
    /\ pc' = "impute"
    /\ UNCHANGED <<input, temp, final, dsm, idx>>

\* an input file is missing or unreadable (lines 40, 49: before the
\* thumbnail of line 62) or the footprints or the OSM query fail (lines 67,
\* 82: after it)
LoadFails ==
    /\ pc = "load"
    /\ \E written \in {{}, {DemThumbnail}} : files' = files \cup written
    /\ Raise

\* lines 94-120: category means, and the histogram of heights
ImputeHeights ==
    /\ pc = "impute"
    /\ blds' = ImputeClass(blds)
    /\ files' = files \cup {Histogram}
    /\ pc' = "match"
    /\ UNCHANGED <<input, dem, blds2, temp, final, dsm, idx>>

\* lines 122-150: OSM footprints with no primary footprint, and their map
MatchOsmStep ==
    /\ pc = "match"
    /\ temp' = MatchOsm(blds2, blds)
    /\ files' = files \cup {Footprints}
    /\ pc' = "merge"
    /\ UNCHANGED <<input, dem, blds, blds2, final, dsm, idx>>

\* the join of line 123 or the basemap of line 139 raises, before the map
\* is saved
MatchOsmFails ==
    /\ pc = "match"
    /\ Raise
    /\ UNCHANGED files

\* lines 153-158
MergeStep ==
    /\ pc = "merge"
    /\ final' = Merge(blds, temp)
    /\ pc' = "nearest"
    /\ UNCHANGED <<input, dem, blds, blds2, temp, dsm, idx, files>>

\* line 154: blds is in the CRS of the extent and temp in UTM; a geopandas
\* that checks the CRS of the frames it concatenates raises ValueError
MergeFails ==
    /\ pc = "merge"
    /\ Raise
    /\ UNCHANGED files

\* lines 160-171, then lines 179 and 182: final.to_crs(epsg=4269) keeps the
\* geographic coordinates, dsm starts as a copy of dem
NearestStep ==
    /\ pc = "nearest"
    /\ LET J == NearestJoin(final)
       IN IF Ambiguous(J)
          THEN Raise /\ UNCHANGED files
          ELSE /\ final' = AssignNearest(final, J)
               /\ dsm' = dem
               /\ idx' = 1
               /\ pc' = "raster"
               /\ UNCHANGED <<input, dem, blds, blds2, temp, files>>

\* lines 183-185: one turn of the loop
RasterStep ==
    /\ pc = "raster"
    /\ idx <= Len(final)
    /\ dsm' = Burn(dsm, dem, final[idx])
    /\ idx' = idx + 1
    /\ UNCHANGED <<pc, input, dem, blds, blds2, temp, final, files>>

\* lines 187-196
PlotDsm ==
    /\ pc = "raster"
    /\ idx > Len(final)
    /\ files' = files \cup {DsmThumbnail}
    /\ pc' = "save"
    /\ UNCHANGED <<input, dem, blds, blds2, temp, final, dsm, idx>>

\* the reprojection or the basemap of lines 188-190 raises, before the
\* thumbnail is saved
PlotDsmFails ==
    /\ pc = "raster"
    /\ idx > Len(final)
    /\ Raise
    /\ UNCHANGED files

\* line 200: to_raster raises, before or after it has created the file
SaveDsmFails ==
    /\ pc = "save"
    /\ \E written \in {{}, {DsmRaster}} : files' = files \cup written
    /\ Raise

\* the save indented into the loop of line 183
SaveDsm_inLoop ==
    /\ pc = "raster"
    /\ idx <= Len(final)
    /\ DsmRaster \notin files
    /\ files' = files \cup {DsmRaster}
    /\ UNCHANGED <<pc, input, dem, blds, blds2, temp, final, dsm, idx>>

\* lines 198-201
SaveDsm ==
    /\ pc = "save"
    /\ files' = files \cup {DsmRaster}
    /\ pc' = "done"
    /\ UNCHANGED <<input, dem, blds, blds2, temp, final, dsm, idx>>

Next ==
    \/ Load
    \/ LoadFails
    \/ ImputeHeights
    \/ MatchOsmStep
    \/ MatchOsmFails
    \/ MergeStep
    \/ MergeFails
    \/ NearestStep
    \/ RasterStep
    \/ PlotDsm
    \/ PlotDsmFails
    \/ SaveDsm
    \/ SaveDsmFails

Init == \E in \in MergeInputs : Start(in)

Spec == Init /\ [][Next]_vars

InitClasses == \E in \in ClassInputs : Start(in)

SpecClasses == InitClasses /\ [][Next]_vars

InitRaster == \E in \in RasterInputs : Start(in)

SpecRaster == InitRaster /\ [][Next]_vars

----------------------------------------------------------------------------
(* Vocabulary of the properties *)

AfterImpute  == pc \in {"match", "merge"}
AfterMerge   == pc \in {"nearest", "raster", "save", "done"}
AfterNearest == pc \in {"raster", "save", "done"}
LoopDone     == pc \in {"save", "done"}

\* the rows of final that came from the primary source / from OSM
Primary  == Indices(blds)
Appended == (Len(blds) + 1)..Len(final)

\* a footprint whose height the source gives
Surveyed(row) == GtZero(SourceHeight(row))

\* a footprint the source gives no height for, as line 104 reads it
Unsurveyed(row) == EqZero(SourceHeight(row))

\* the surveyed primary footprints of a class
SurveyedIn(c) == {j \in Primary : Surveyed(blds[j]) /\ blds[j].Prop_Class = c}

RECURSIVE TotalHeight(_)
\* the sum of the source heights of a set of primary footprints
TotalHeight(S) ==
    IF S = {} THEN Whole(0)
    ELSE LET j == CHOOSE x \in S : TRUE
         IN Add(SourceHeight(blds[j]), TotalHeight(S \ {j}))

(* C3: after category-mean imputation, every primary footprint whose class *)
(* is that of some footprint of known height has a height that is not 0.   *)
C3_NoZeroInSurveyedClass ==
    AfterImpute =>
        \A i \in Primary :
            (blds[i].Prop_Class # NoClass /\ SurveyedIn(blds[i].Prop_Class) # {})
                => ~EqZero(blds[i].height)

\* a footprint without height got one from its class, another class has no
\* surveyed footprint and its footprint stays at 0
C3_Witness ==
    /\ pc = "match"
    /\ \E i \in Primary : /\ Unsurveyed(blds[i])
                          /\ SurveyedIn(blds[i].Prop_Class) # {}
                          /\ GtZero(blds[i].height)
    /\ \E i \in Primary : EqZero(blds[i].height)

(* C7: category-mean imputation gives every primary footprint of height 0 *)
(* whose class has surveyed footprints exactly the mean of the source      *)
(* heights of the surveyed footprints of that class: height * count = sum. *)
C7_ClassMeanOfSurveyed ==
    AfterImpute =>
        \A i \in Primary :
            LET K == SurveyedIn(blds[i].Prop_Class)
            IN (Unsurveyed(blds[i]) /\ blds[i].Prop_Class # NoClass /\ K # {})
                  => /\ ~IsNaN(blds[i].height)
                     /\ Mul(blds[i].height, Whole(Cardinality(K))) = TotalHeight(K)

\* a footprint of height 0 takes the mean of two surveyed footprints of
\* its class whose heights differ
C7_Witness ==
    /\ pc = "match"
    /\ \E i \in Primary :
          /\ Unsurveyed(blds[i])
          /\ blds[i].imputed = "True"
          /\ \E a, b \in SurveyedIn(blds[i].Prop_Class) :
                SourceHeight(blds[a]) # SourceHeight(blds[b])

(* C4: an OSM footprint that passed the extent filter is among the rows    *)
(* appended to final exactly when its distance, in the projected CRS, to   *)
(* every primary footprint exceeds 0.                                      *)
C4_AppendedIffApart ==
    AfterMerge =>
        \A j \in Indices(blds2) :
            (\E k \in Appended : final[k].geometry = ToUtm(blds2[j].geometry))
            <=> (\A i \in Primary :
                    Dist2(ToUtm(blds2[j].geometry), ToUtm(blds[i].geometry)) > 0)

\* one OSM footprint is appended with a primary footprint within
\* MaxDistance, or with none within it, and another run drops one
C4_Witness ==
    /\ pc = "nearest"
    /\ Primary # {}
    /\ Appended # {}
    /\ \A i \in Primary :
          Dist2(final[Len(final)].geometry, ToUtm(blds[i].geometry))
              > MaxDistance * MaxDistance

(* C10: a primary footprint of known height keeps that height and          *)
(* imputed = False through category-mean imputation, the merge and the     *)
(* nearest-neighbour stage; the merge keeps the primary rows, in order, as *)
(* the first rows of final; and each of the two stages changes only rows   *)
(* whose height is 0 when it runs.                                         *)
C10_SurveyedKept ==
    /\ AfterImpute =>
          \A i \in Primary :
              Surveyed(blds[i]) => /\ blds[i].height = SourceHeight(blds[i])
                                   /\ blds[i].imputed = "False"
    /\ AfterMerge =>
          /\ Len(final) = Len(blds) + Len(temp)
          /\ \A i \in Primary :
                /\ final[i].geometry = blds[i].geometry
                /\ final[i].HEIGHT = blds[i].HEIGHT
                /\ final[i].Prop_Class = blds[i].Prop_Class
                /\ Surveyed(blds[i]) => /\ final[i].height = SourceHeight(blds[i])
                                        /\ final[i].imputed = "False"

C10_OnlyZeroChanged ==
    /\ (pc = "impute" /\ pc' = "match") =>
          /\ Len(blds') = Len(blds)
          /\ \A i \in Indices(blds) :
                \/ EqZero(blds[i].height)
                \/ /\ blds'[i].height = blds[i].height
                   /\ blds'[i].imputed = "False"
                   /\ blds'[i].geometry = blds[i].geometry
    /\ (pc = "nearest" /\ pc' = "raster") =>
          /\ Len(final') = Len(final)
          /\ \A i \in Indices(final) : EqZero(final[i].height) \/ final'[i] = final[i]

C10_Frame == [](C10_SurveyedKept) /\ [][C10_OnlyZeroChanged]_vars

\* after the nearest-neighbour stage: a surveyed footprint beside a
\* footprint imputed from its class, one imputed from a neighbour, and an
\* appended OSM footprint
C10_Witness ==
    /\ pc = "raster"
    /\ Appended # {}
    /\ \E i, j, k \in Primary :
          /\ Surveyed(blds[i]) /\ final[i].height = SourceHeight(blds[i])
          /\ final[j].imputed = "True"
          /\ Unsurveyed(blds[k]) /\ final[k].imputed = "False"
          /\ GtZero(final[k].height)

C5_NothingWrittenOnFailure == pc = "failed" => files = {}

(* C5, amended: the DSM raster is written by the last step only, after     *)
(* every earlier step has succeeded and saved its image: a run in which a  *)
(* step before the final save failed has not written it (the diagnostic    *)
(* images of the steps that completed stay), and a run that completed has  *)
(* written all five files.                                                 *)
C5_RasterOnlyOnSuccess ==
    /\ DsmRaster \in files =>
          /\ pc \in {"done", "failed"}
          /\ {DemThumbnail, Histogram, Footprints, DsmThumbnail} \subseteq files
    /\ pc = "done" => files = {DemThumbnail, Histogram, Footprints,
                               DsmThumbnail, DsmRaster}

\* a run that failed in the merge or the nearest-neighbour stage, after
\* three diagnostic images
C5_Witness ==
    /\ pc = "failed"
    /\ files = {DemThumbnail, Histogram, Footprints}

\* the projected geometry of a row of final: temp holds projected
\* coordinates already
Projected(i) ==
    IF i \in Primary THEN ToUtm(blds[i].geometry) ELSE final[i].geometry

\* the claim of C6 as stated: every row whose height is 0 when the
\* nearest-neighbour stage starts gets the source height of a surveyed
\* footprint that is nearest to it in the projected CRS
C6_HeightOfNearestSurveyed ==
    (AfterNearest /\ \E j \in Primary : Surveyed(blds[j])) =>
        \A i \in Indices(final) :
            (i \in Appended \/ EqZero(blds[i].height)) =>
                \E j \in Primary :
                    /\ Surveyed(blds[j])
                    /\ final[i].height = SourceHeight(blds[j])
                    /\ \A k \in Primary :
                          Surveyed(blds[k]) =>
                              Dist2(Projected(i), Projected(j))
                                  <= Dist2(Projected(i), Projected(k))

\* the claim of C9 as stated: appended rows are flagged imputed, and in
\* final the flag is True exactly for the rows whose height is not the
\* source's
C9_FlagIffImputed ==
    AfterNearest =>
        /\ \A k \in Appended : final[k].imputed = "True"
        /\ \A i \in Primary :
              /\ Surveyed(blds[i]) => final[i].imputed = "False"
              /\ (~Surveyed(blds[i]) /\ GtZero(final[i].height))
                    => final[i].imputed = "True"

\* the cells of the DEM under a footprint that hold an elevation
GroundCells(g) ==
    {c \in Cells(dem.w, dem.h) : Under(g, c) /\ ~IsNaN(dem.val[c])}

RECURSIVE GroundSum(_)
GroundSum(S) ==
    IF S = {} THEN Whole(0)
    ELSE LET c == CHOOSE x \in S : TRUE
         IN Add(dem.val[c], GroundSum(S \ {c}))

\* the mean elevation of the DEM under a footprint
GroundMean(g) ==
    IF GroundCells(g) = {} THEN NaN
    ELSE Mul(GroundSum(GroundCells(g)), Rat(1, Cardinality(GroundCells(g))))

\* what the claims expect under footprint i of final
Level(i) == Add(GroundMean(final[i].geometry), final[i].height)

\* the footprints of final over a cell, and the last of them in final
Covering(c) == {i \in Indices(final) : Under(final[i].geometry, c)}

Last(c) == CHOOSE i \in Covering(c) : \A j \in Covering(c) : j <= i

\* the end-to-end scenario: flat ground, the footprint raised by its height
ScenarioResult ==
    input \in ScenarioInputs =>
        \A c \in Cells(dem.w, dem.h) :
            dsm.val[c] = IF Under(input.blds[1].geometry, c)
                         THEN Whole(Scenario.ground + Scenario.height)
                         ELSE Whole(Scenario.ground)

\* the claim of C1 as stated: after the loop a cell under no footprint holds
\* the DEM's value, a cell under a footprint the mean of the DEM under that
\* footprint plus its height
C1_EveryCell ==
    LoopDone =>
        /\ \A c \in Cells(dem.w, dem.h) :
              IF Covering(c) = {} THEN dsm.val[c] = dem.val[c]
              ELSE \E i \in Covering(c) : dsm.val[c] = Level(i)
        /\ ScenarioResult

(* C1, amended: after the loop a cell under no footprint, or one the DEM    *)
(* has no elevation for, holds the DEM's value; a cell with an elevation    *)
(* under a footprint holds the mean of the DEM's elevations under that      *)
(* footprint plus its height; the 10x10 scenario gives 105 under the        *)
(* footprint and 100 elsewhere.                                             *)
C1_EveryCellWithElevation ==
    LoopDone =>
        /\ \A c \in Cells(dem.w, dem.h) :
              IF Covering(c) = {} \/ IsNaN(dem.val[c]) THEN dsm.val[c] = dem.val[c]
              ELSE \E i \in Covering(c) : dsm.val[c] = Level(i)
        /\ ScenarioResult

\* a sloping DEM: a footprint of two cells or more, one of them without
\* elevation, the other raised, and a cell under no footprint
C1_Witness ==
    /\ LoopDone
    /\ input \in SlopeInputs
    /\ \E c1, c2, c3 \in Cells(dem.w, dem.h) :
          /\ Covering(c1) # {} /\ IsNaN(dem.val[c1]) /\ IsNaN(dsm.val[c1])
          /\ Covering(c2) = Covering(c1) /\ GtZero(dem.val[c2])
          /\ dsm.val[c2] # dem.val[c2]
          /\ Covering(c3) = {} /\ GtZero(dsm.val[c3])

\* the end-to-end scenario has run
C1_ScenarioWitness ==
    /\ pc = "done"
    /\ input \in ScenarioInputs
    /\ \E c \in Cells(dem.w, dem.h) :
          dsm.val[c] = Whole(Scenario.ground + Scenario.height)

\* the claim of C8 as stated: after the loop a cell under one footprint or
\* more holds the mean of the original DEM under the last of them plus that
\* footprint's height
C8_LastWins ==
    LoopDone =>
        \A c \in Cells(dem.w, dem.h) :
            Covering(c) # {} => dsm.val[c] = Level(Last(c))

(* C8, amended: after the loop a cell with an elevation in the DEM, under   *)
(* one footprint or more, holds the mean of the original DEM under the last *)
(* of them in final plus that footprint's height (a cell without elevation  *)
(* is never written).                                                       *)
C8_LastWinsWithElevation ==
    LoopDone =>
        \A c \in Cells(dem.w, dem.h) :
            (Covering(c) # {} /\ ~IsNaN(dem.val[c]))
                => dsm.val[c] = Level(Last(c))

\* two footprints of different levels over one cell, which holds the level
\* of the second, and a cell under the first only
C8_Witness ==
    /\ LoopDone
    /\ Len(final) = 2
    /\ Level(1) # Level(2)
    /\ \E c, e \in Cells(dem.w, dem.h) :
          /\ Covering(c) = {1, 2} /\ dsm.val[c] = Level(2)
          /\ Covering(e) = {1} /\ dsm.val[e] = Level(1)
          /\ dem.val[e] # dem.val[c]

====
